---- MODULE Spec2Model ----
(***************************************************************************)
(* Model of flujoADRsvslocal.py: the price resolver (get_valid_date), the  *)
(* basket aggregator (fetch_price_volume, calculate_sum), the cross-listing *)
(* ratio (fetch_ypf_ratio) and the three basket sections of main.          *)
(*                                                                         *)
(* Dates are day numbers.  Prices and volumes are small naturals, on which *)
(* float64 products and sums are exact; quotients are kept as fractions    *)
(* (num/den) with the IEEE specials inf and nan, so IEEE rounding of a     *)
(* quotient is not modelled.  NaN cells in the provider's table are not    *)
(* modelled.                                                               *)
(***************************************************************************)
EXTENDS Integers, Sequences, FiniteSets, TLC

VARIABLES market, selected_date, pc, section, tickers, idx, price, volume,
          latest_valid_date, data, failed_tickers, log, adrs_value,
          panel_lider_value, panel_general_value, panel_sum, ypfd_ratio

vars == <<market, selected_date, pc, section, tickers, idx, price, volume,
          latest_valid_date, data, failed_tickers, log, adrs_value,
          panel_lider_value, panel_general_value, panel_sum, ypfd_ratio>>

\* ---------------------------------------------------------------- bounds
\* Longest ticker list handed to fetch_price_volume by SpecFetch.
MaxLen == 3
\* Most rows in a table the provider returns in SpecResolver.
MaxRows == 2

\* ------------------------------------------------------ program constants
LookbackDays == 7
EndDays == 1
today == 0

\* Abridged basket lists of main (the source hardcodes 13, 21 and 45 tickers).
adrs_tickers == <<"GGAL", "YPF">>
panel_lider_tickers == <<"GGAL.BA", "YPFD.BA">>
panel_general_tickers == <<"MOLI.BA">>

MainSymbols == {"GGAL", "YPF", "GGAL.BA", "YPFD.BA", "MOLI.BA"}
FetchSymbols == {"AAA", "BBB", "CCC"}

\* ------------------------------------------------------------ Python values
None == [some |-> FALSE, v |-> 0]
Some(x) == [some |-> TRUE, v |-> x]

\* float results of a division: a fraction num/den (den > 0), or inf, or nan.
Fin(n, d) == [kind |-> "fin", num |-> n, den |-> d]
Inf == [kind |-> "inf", num |-> 0, den |-> 1]
NaN == [kind |-> "nan", num |-> 0, den |-> 1]
Unbound == [kind |-> "unbound", num |-> 0, den |-> 1]
NoneRatio == [kind |-> "none", num |-> 0, den |-> 1]

\* numpy float64 true division a / b of two non-negative numbers a, b:
\* b = 0 gives inf (a > 0) or nan (a = 0) with a RuntimeWarning, no exception.
np_divide(a, b) ==
    IF b = 0 THEN (IF a = 0 THEN NaN ELSE Inf) ELSE Fin(a, b)

\* float x (a number) divided by the float r.
float_divide(x, r) ==
    CASE r.kind = "nan" -> NaN
      [] r.kind = "inf" -> Fin(0, 1)
      [] OTHER -> IF r.num = 0 THEN (IF x = 0 THEN NaN ELSE Inf)
                               ELSE Fin(x * r.den, r.num)

\* Python truth value of fetch_ypf_ratio's result: None and 0.0 are false,
\* every other float (inf and nan included) is true.
truthy(r) ==
    CASE r.kind = "none" -> FALSE
      [] r.kind = "fin" -> r.num # 0
      [] OTHER -> TRUE

\* ------------------------------------------------- the upstream provider
Columns == {"Adj Close", "Close", "Volume"}
Prices == {0, 2, 10}
Volumes == {0, 50}
SampleDates == {today - LookbackDays - 1, today - LookbackDays, today, today + EndDays}

Rows == [date : SampleDates, adj : Prices, close : Prices, volume : Volumes]

RECURSIVE RowSets(_)
\* Sets of at most n rows with pairwise distinct dates (the table's index).
RowSets(n) ==
    IF n = 0 THEN {{}}
    ELSE LET prev == RowSets(n - 1)
         IN prev \cup UNION {{t \cup {r} : r \in {q \in Rows : \A o \in t : o.date # q.date}}
                              : t \in prev}

Raise == [kind |-> "raise", cols |-> {}, rows |-> {}]
Table(cols, rows) == [kind |-> "table", cols |-> cols, rows |-> rows]

\* Every answer of ticker.history in SpecResolver.
RichResponses ==
    {Raise} \cup {Table(c, rs) : c \in SUBSET Columns, rs \in RowSets(MaxRows)}

\* One-row table dated d with every column.
Quote(d, p, v) == Table(Columns, {[date |-> d, adj |-> p, close |-> p, volume |-> v]})

\* The answers of ticker.history in SpecFetch and Spec.
SmallResponses ==
    {Raise, Table(Columns, {})}
    \cup {Quote(today, p, 50) : p \in Prices}
    \cup {Table(Columns \ {"Adj Close"},
                {[date |-> today, adj |-> 0, close |-> 2, volume |-> 50]}),
          Table(Columns \ {"Volume"},
                {[date |-> today, adj |-> 2, close |-> 2, volume |-> 0]})}

\* ticker.history(start=start_date, end=end_date): the provider is opaque; the
\* market holds what it answers for this query.
history(mkt, sym, start_date, end_date) == mkt[sym]

\* ------------------------------------------------------------- st messages
Msg(level, ticker, text) == [level |-> level, ticker |-> ticker, text |-> text]

\* ---------------------------------------------------------- get_valid_date
MaxDate(rows) == CHOOSE d \in {r.date : r \in rows} : \A r \in rows : r.date <= d
RowAt(rows, d) == CHOOSE r \in rows : r.date = d

Failure(sym, text) ==
    [price |-> None, volume |-> None, latest |-> None, raised |-> FALSE,
     warnings |-> <<Msg("warning", sym, text)>>]

Resolved(row, latest) ==
    [price |-> Some(row.adj), volume |-> Some(row.volume),
     latest |-> Some(latest), raised |-> FALSE, warnings |-> <<>>]

\* As get_valid_date, without the try/except around ticker.history.
get_valid_date_propagates(mkt, sym, date) ==
    LET ticker_data == history(mkt, sym, date - LookbackDays, date + EndDays)
    IN IF ticker_data.kind = "raise"
       THEN [price |-> None, volume |-> None, latest |-> None, raised |-> TRUE,
             warnings |-> <<>>]
       ELSE IF ticker_data.rows = {}
       THEN Failure(sym, "No data available")
       ELSE IF ~({"Adj Close", "Volume"} \subseteq ticker_data.cols)
       THEN Failure(sym, "Error fetching data")
       ELSE Resolved(RowAt(ticker_data.rows, MaxDate(ticker_data.rows)),
                     MaxDate(ticker_data.rows))

\* As get_valid_date, without the st.warning of the empty table.
get_valid_date_silent(mkt, sym, date) ==
    LET ticker_data == history(mkt, sym, date - LookbackDays, date + EndDays)
    IN IF ticker_data.kind = "raise"
       THEN Failure(sym, "Error fetching data")
       ELSE IF ticker_data.rows = {}
       THEN [price |-> None, volume |-> None, latest |-> None, raised |-> FALSE,
             warnings |-> <<>>]
       ELSE IF ~({"Adj Close", "Volume"} \subseteq ticker_data.cols)
       THEN Failure(sym, "Error fetching data")
       ELSE Resolved(RowAt(ticker_data.rows, MaxDate(ticker_data.rows)),
                     MaxDate(ticker_data.rows))

\* get_valid_date(ticker, selected_date): the try body reads the latest row's
\* 'Adj Close' and 'Volume'; every exception (the provider's, or the KeyError
\* of a missing column) is caught, warned about and turned into (None, None).
get_valid_date(mkt, sym, date) ==
    LET start_date == date - LookbackDays
        end_date == date + EndDays
        ticker_data == history(mkt, sym, start_date, end_date)
    IN IF ticker_data.kind = "raise"
       THEN Failure(sym, "Error fetching data")
       ELSE IF ticker_data.rows = {}
       THEN Failure(sym, "No data available")
       ELSE LET latest == MaxDate(ticker_data.rows)
                row == RowAt(ticker_data.rows, latest)
            IN IF "Adj Close" \notin ticker_data.cols
               THEN Failure(sym, "Error fetching data")
               ELSE IF "Volume" \notin ticker_data.cols
               THEN Failure(sym, "Error fetching data")
               ELSE Resolved(row, latest)

\* ------------------------------------------------------ fetch_price_volume
Rec(sym, p, v) == [Ticker |-> sym, Price |-> p, Volume |-> v]

append_result_drops_failed(d, f, sym, p, v) ==
    IF p.some /\ v.some
    THEN [data |-> Append(d, Rec(sym, p.v, v.v)), failed |-> f]
    ELSE [data |-> d, failed |-> f]

\* The loop body after the resolver returned: the ticker goes to data or to
\* failed_tickers.
append_result(d, f, sym, p, v) ==
    IF p.some /\ v.some
    THEN [data |-> Append(d, Rec(sym, p.v, v.v)), failed |-> f]
    ELSE [data |-> d, failed |-> Append(f, sym)]

\* ------------------------------------------------------------ calculate_sum
RECURSIVE SumProducts(_)
SumProducts(df) ==
    IF df = <<>> THEN 0
    ELSE df[1].Price * df[1].Volume + SumProducts(Tail(df))

RECURSIVE SumPrices(_)
SumPrices(df) == IF df = <<>> THEN 0 ELSE df[1].Price + SumPrices(Tail(df))

calculate_sum_prices(df) ==
    IF df = <<>> THEN [exc |-> "KeyError", value |-> 0]
    ELSE [exc |-> "", value |-> SumPrices(df)]

calculate_sum_last(df) ==
    IF df = <<>> THEN [exc |-> "KeyError", value |-> 0]
    ELSE [exc |-> "", value |-> df[Len(df)].Price * df[Len(df)].Volume]

\* calculate_sum(df): pd.DataFrame([]) has no columns, so df['Price'] raises
\* KeyError on the empty frame; otherwise the sum of Price * Volume.
calculate_sum(df) ==
    IF df = <<>> THEN [exc |-> "KeyError", value |-> 0]
    ELSE [exc |-> "", value |-> SumProducts(df)]

\* ---------------------------------------------------------- fetch_ypf_ratio
\* fetch_ypf_ratio(selected_date): both legs are resolved (each may warn); a
\* None price on either leg gives st.error and None; otherwise ypfd / ypf.
fetch_ypf_ratio(mkt, date) ==
    LET ypf == get_valid_date(mkt, "YPF", date)
        ypfd == get_valid_date(mkt, "YPFD.BA", date)
        warned == ypf.warnings \o ypfd.warnings
    IN IF ~ypf.price.some \/ ~ypfd.price.some
       THEN [ratio |-> NoneRatio,
             msgs |-> Append(warned, Msg("error", "", "Could not retrieve YPF or YPFD.BA data"))]
       ELSE [ratio |-> np_divide(ypfd.price.v, ypf.price.v), msgs |-> warned]

\* ------------------------------------------------------------------- main
FailedWarning(name, failed) ==
    IF failed # <<>> THEN <<Msg("warning", name, "Failed to fetch tickers")>> ELSE <<>>

adrs_section_unguarded(df) ==
    [value |-> Fin(calculate_sum(df).value, 1), raised |-> calculate_sum(df).exc # "",
     msgs |-> <<Msg("success", "ADRs", "Sum")>>]

\* main, the ADRs basket after fetch_price_volume returned: the sum of a
\* non-empty frame, 0 and a warning for the empty one.
adrs_section(df) ==
    IF df # <<>>
    THEN [value |-> Fin(calculate_sum(df).value, 1), raised |-> calculate_sum(df).exc # "",
          msgs |-> <<Msg("success", "ADRs", "Sum")>>]
    ELSE [value |-> Fin(0, 1), raised |-> FALSE,
          msgs |-> <<Msg("warning", "ADRs", "No data available")>>]

normalize_multiplies(sum, ratio, name) ==
    IF truthy(ratio)
    THEN [value |-> IF ratio.kind = "fin" THEN Fin(sum * ratio.num, ratio.den)
                    ELSE float_divide(sum, ratio),
          msgs |-> <<Msg("success", name, "Sum")>>]
    ELSE [value |-> Fin(0, 1), msgs |-> <<Msg("error", name, "Could not calculate")>>]

\* main, a panel basket once the ratio is fetched: sum / ratio when the ratio
\* is true, else 0 and st.error.
normalize(sum, ratio, name) ==
    IF truthy(ratio)
    THEN [value |-> float_divide(sum, ratio), msgs |-> <<Msg("success", name, "Sum")>>]
    ELSE [value |-> Fin(0, 1), msgs |-> <<Msg("error", name, "Could not calculate")>>]

\* The call fetch_price_volume(list, selected_date): data and failed_tickers
\* start empty and the for loop starts at the first ticker.
EnterFetch(name, list) ==
    /\ section' = name
    /\ tickers' = list
    /\ idx' = 1
    /\ data' = <<>>
    /\ failed_tickers' = <<>>
    /\ price' = None
    /\ volume' = None
    /\ latest_valid_date' = None
    /\ pc' = "loop"

\* main returns at once on a date in the future.
RejectFuture ==
    /\ pc = "start"
    /\ selected_date > today
    /\ pc' = "rejected"
    /\ log' = Append(log, Msg("error", "", "Selected date cannot be in the future."))
    /\ UNCHANGED <<market, selected_date, section, tickers, idx, price, volume,
                   latest_valid_date, data, failed_tickers, adrs_value,
                   panel_lider_value, panel_general_value, panel_sum, ypfd_ratio>>

\* The Fetch Data button: main enters fetch_price_volume(adrs_tickers, ...).
ClickFetch ==
    /\ pc = "start"
    /\ selected_date <= today
    /\ EnterFetch("ADRs", adrs_tickers)
    /\ UNCHANGED <<market, selected_date, log, adrs_value, panel_lider_value,
                   panel_general_value, panel_sum, ypfd_ratio>>

\* One iteration of the for loop up to the return of get_valid_date.
LoopCall ==
    /\ pc = "loop"
    /\ idx <= Len(tickers)
    /\ LET r == get_valid_date(market, tickers[idx], selected_date)
       IN /\ price' = r.price
          /\ volume' = r.volume
          /\ latest_valid_date' = r.latest
          /\ log' = log \o r.warnings
          /\ pc' = IF r.raised THEN "raised" ELSE "append"
    /\ UNCHANGED <<market, selected_date, section, tickers, idx, data,
                   failed_tickers, adrs_value, panel_lider_value,
                   panel_general_value, panel_sum, ypfd_ratio>>

\* The rest of the iteration: the ticker is appended to data or failed_tickers.
LoopAppend ==
    /\ pc = "append"
    /\ LET r == append_result(data, failed_tickers, tickers[idx], price, volume)
       IN /\ data' = r.data
          /\ failed_tickers' = r.failed
    /\ idx' = idx + 1
    /\ pc' = "loop"
    /\ UNCHANGED <<market, selected_date, section, tickers, price, volume,
                   latest_valid_date, log, adrs_value, panel_lider_value,
                   panel_general_value, panel_sum, ypfd_ratio>>

\* The loop is over: df = pd.DataFrame(data) and failed_tickers are returned.
LoopExit ==
    /\ pc = "loop"
    /\ idx > Len(tickers)
    /\ pc' = "returned"
    /\ UNCHANGED <<market, selected_date, section, tickers, idx, price, volume,
                   latest_valid_date, data, failed_tickers, log, adrs_value,
                   panel_lider_value, panel_general_value, panel_sum, ypfd_ratio>>

\* main, the ADRs basket: its value and its messages.
AdrsSection ==
    /\ pc = "returned"
    /\ section = "ADRs"
    /\ LET r == adrs_section(data)
       IN /\ adrs_value' = IF r.raised THEN adrs_value ELSE r.value
          /\ pc' = IF r.raised THEN "raised" ELSE "adrs_done"
          /\ log' = IF r.raised THEN log
                    ELSE log \o r.msgs \o FailedWarning("ADRs", failed_tickers)
    /\ UNCHANGED <<market, selected_date, section, tickers, idx, price, volume,
                   latest_valid_date, data, failed_tickers, panel_lider_value,
                   panel_general_value, panel_sum, ypfd_ratio>>

SetPanelValue(name, v) ==
    /\ panel_lider_value' = IF name = "Panel Lider" THEN v ELSE panel_lider_value
    /\ panel_general_value' = IF name = "Panel General" THEN v ELSE panel_general_value

\* main, a panel basket with a non-empty frame: its sum and the ratio.
PanelRatio ==
    /\ pc = "returned"
    /\ section # "ADRs"
    /\ data # <<>>
    /\ LET s == calculate_sum(data)
           r == fetch_ypf_ratio(market, selected_date)
       IN /\ panel_sum' = IF s.exc # "" THEN panel_sum ELSE Fin(s.value, 1)
          /\ ypfd_ratio' = IF s.exc # "" THEN ypfd_ratio ELSE r.ratio
          /\ log' = IF s.exc # "" THEN log ELSE log \o r.msgs
          /\ pc' = IF s.exc # "" THEN "raised" ELSE "ratio"
    /\ UNCHANGED <<market, selected_date, section, tickers, idx, price, volume,
                   latest_valid_date, data, failed_tickers, adrs_value,
                   panel_lider_value, panel_general_value>>

\* main, a panel basket: the normalised value, then the failed-tickers warning.
PanelNormalize ==
    /\ pc = "ratio"
    /\ LET r == normalize(panel_sum.num, ypfd_ratio, section)
       IN /\ SetPanelValue(section, r.value)
          /\ log' = log \o r.msgs \o FailedWarning(section, failed_tickers)
    /\ pc' = IF section = "Panel Lider" THEN "lider_done" ELSE "general_done"
    /\ UNCHANGED <<market, selected_date, section, tickers, idx, price, volume,
                   latest_valid_date, data, failed_tickers, adrs_value,
                   panel_sum, ypfd_ratio>>

\* main, a panel basket with an empty frame: 0 and a warning.
PanelEmpty ==
    /\ pc = "returned"
    /\ section # "ADRs"
    /\ data = <<>>
    /\ SetPanelValue(section, Fin(0, 1))
    /\ log' = Append(log, Msg("warning", section, "No data available"))
              \o FailedWarning(section, failed_tickers)
    /\ pc' = IF section = "Panel Lider" THEN "lider_done" ELSE "general_done"
    /\ UNCHANGED <<market, selected_date, section, tickers, idx, price, volume,
                   latest_valid_date, data, failed_tickers, adrs_value,
                   panel_sum, ypfd_ratio>>

\* main enters fetch_price_volume(panel_lider_tickers, ...).
StartLider ==
    /\ pc = "adrs_done"
    /\ EnterFetch("Panel Lider", panel_lider_tickers)
    /\ UNCHANGED <<market, selected_date, log, adrs_value, panel_lider_value,
                   panel_general_value, panel_sum, ypfd_ratio>>

\* main enters fetch_price_volume(panel_general_tickers, ...).
StartGeneral ==
    /\ pc = "lider_done"
    /\ EnterFetch("Panel General", panel_general_tickers)
    /\ UNCHANGED <<market, selected_date, log, adrs_value, panel_lider_value,
                   panel_general_value, panel_sum, ypfd_ratio>>

\* main hands the three values to the charts and ends.
Render ==
    /\ pc = "general_done"
    /\ pc' = "done"
    /\ UNCHANGED <<market, selected_date, section, tickers, idx, price, volume,
                   latest_valid_date, data, failed_tickers, log, adrs_value,
                   panel_lider_value, panel_general_value, panel_sum, ypfd_ratio>>

\* ---------------------------------------------------------- specifications
InitLocals ==
    /\ section = "ADRs"
    /\ idx = 1
    /\ price = None
    /\ volume = None
    /\ latest_valid_date = None
    /\ data = <<>>
    /\ failed_tickers = <<>>
    /\ log = <<>>
    /\ adrs_value = Unbound
    /\ panel_lider_value = Unbound
    /\ panel_general_value = Unbound
    /\ panel_sum = Unbound
    /\ ypfd_ratio = Unbound

\* One run of main on the date the user picked.
Init ==
    /\ market \in [MainSymbols -> SmallResponses]
    /\ selected_date \in {today, today + 1}
    /\ pc = "start"
    /\ tickers = <<>>
    /\ InitLocals

Next ==
    \/ RejectFuture
    \/ ClickFetch
    \/ LoopCall
    \/ LoopAppend
    \/ LoopExit
    \/ AdrsSection
    \/ PanelRatio
    \/ PanelNormalize
    \/ PanelEmpty
    \/ StartLider
    \/ StartGeneral
    \/ Render

Spec == Init /\ [][Next]_vars

TickerLists == UNION {[1..n -> FetchSymbols] : n \in 0..MaxLen}

\* fetch_price_volume and the ADRs section of main on any ticker list.
InitFetch ==
    /\ market \in [FetchSymbols -> SmallResponses]
    /\ selected_date = today
    /\ tickers \in TickerLists
    /\ pc = "loop"
    /\ InitLocals

NextFetch ==
    \/ LoopCall
    \/ LoopAppend
    \/ LoopExit
    \/ AdrsSection

SpecFetch == InitFetch /\ [][NextFetch]_vars

\* get_valid_date on every table the provider may answer with.
InitResolver ==
    /\ market \in [{"AAA"} -> RichResponses]
    /\ selected_date = today
    /\ tickers = <<"AAA">>
    /\ pc = "loop"
    /\ InitLocals

SpecResolver == InitResolver /\ [][NextFetch]_vars

\* ------------------------------------------- fetch_price_volume as a whole
RECURSIVE fetch_loop(_, _, _, _, _)
fetch_loop(mkt, list, date, d, f) ==
    IF list = <<>> THEN [data |-> d, failed |-> f]
    ELSE LET r == get_valid_date(mkt, Head(list), date)
             a == append_result(d, f, Head(list), r.price, r.volume)
         IN fetch_loop(mkt, Tail(list), date, a.data, a.failed)

\* fetch_price_volume(tickers, selected_date) run to its return.
fetch_price_volume(mkt, list, date) == fetch_loop(mkt, list, date, <<>>, <<>>)

\* ------------------------------------------------ what the claims speak of
Occ(seq, x) == Cardinality({i \in 1..Len(seq) : seq[i] = x})
DataTickers == [i \in 1..Len(data) |-> data[i].Ticker]
Returned == pc \in {"returned", "adrs_done", "ratio", "lider_done", "general_done"}

\* The provider's answer for sym holds a latest row with a price and a volume.
HasQuote(sym) ==
    /\ market[sym].kind = "table"
    /\ market[sym].rows # {}
    /\ {"Adj Close", "Volume"} \subseteq market[sym].cols
LatestRow(sym) == RowAt(market[sym].rows, MaxDate(market[sym].rows))

RECURSIVE QuoteSum(_)
\* Sum of price x volume over the list's tickers that have a quote.
QuoteSum(list) ==
    IF list = <<>> THEN 0
    ELSE (IF HasQuote(Head(list))
          THEN LatestRow(Head(list)).adj * LatestRow(Head(list)).volume ELSE 0)
         + QuoteSum(Tail(list))

NoQuote(sym) == ~HasQuote(sym)
ResolverWarnings(sym) ==
    Cardinality({i \in 1..Len(log) : log[i].level = "warning" /\ log[i].ticker = sym})

Reorderings(list) ==
    {[i \in 1..Len(list) |-> list[p[i]]] :
        p \in {q \in [1..Len(list) -> 1..Len(list)] :
                  \A i, j \in 1..Len(list) : q[i] = q[j] => i = j}}

SectionValue ==
    CASE section = "ADRs" -> adrs_value
      [] section = "Panel Lider" -> panel_lider_value
      [] OTHER -> panel_general_value
SectionDone == pc \in {"adrs_done", "lider_done", "general_done"}
HasMsg(level, who, text) == \E i \in 1..Len(log) : log[i] = Msg(level, who, text)

\* ------------------------------------------------------------------ claims

\* C1: when fetch_price_volume returns, every occurrence of an input symbol
\* is in exactly one of data and failed_tickers, so
\* len(resolved) + len(failed) = len(input_symbols); during the loop the same
\* holds of the symbols processed so far.
C1_Partition ==
    /\ pc = "loop" => Len(data) + Len(failed_tickers) = idx - 1
    /\ Returned =>
          /\ Len(data) + Len(failed_tickers) = Len(tickers)
          /\ \A s \in FetchSymbols :
                Occ(tickers, s) = Occ(DataTickers, s) + Occ(failed_tickers, s)

C1_Witness ==
    /\ pc = "returned"
    /\ Len(tickers) = 3
    /\ tickers[1] = tickers[3]
    /\ data # <<>>
    /\ failed_tickers # <<>>

\* C2: fetch_ypf_ratio returns None whenever a leg (YPF or YPFD.BA) fails to
\* resolve and whenever YPF resolves to a price of exactly 0.
C2_NoneOnFailedOrZeroLeg ==
    pc = "ratio" =>
        LET ypf == get_valid_date(market, "YPF", selected_date)
            ypfd == get_valid_date(market, "YPFD.BA", selected_date)
        IN (~ypf.price.some \/ ~ypfd.price.some \/ ypf.price.v = 0)
              => ypfd_ratio = NoneRatio

\* C3: for Panel Lider and Panel General and every raw sum x: with the ratio
\* None the basket's value is 0 and its st.error is in the log; with a ratio
\* r # 0 the value is x / r (value * r = x; 0 for r = inf, nan for r = nan).
C3_Normalize ==
    (pc \in {"lider_done", "general_done"} /\ data # <<>>) =>
        /\ ypfd_ratio.kind = "none" =>
              /\ SectionValue = Fin(0, 1)
              /\ HasMsg("error", section, "Could not calculate")
        /\ (ypfd_ratio.kind = "fin" /\ ypfd_ratio.num # 0) =>
              /\ SectionValue.kind = "fin"
              /\ SectionValue.num * ypfd_ratio.num
                    = panel_sum.num * ypfd_ratio.den * SectionValue.den
              /\ ~HasMsg("error", section, "Could not calculate")
        /\ ypfd_ratio.kind = "inf" => SectionValue.kind = "fin" /\ SectionValue.num = 0
        /\ ypfd_ratio.kind = "nan" => SectionValue.kind = "nan"

C3_Witness ==
    /\ pc = "general_done"
    /\ data # <<>>
    /\ panel_sum.num > 0
    /\ ypfd_ratio.kind = "fin"
    /\ ypfd_ratio.num > ypfd_ratio.den
    /\ panel_general_value = Fin(panel_sum.num * ypfd_ratio.den, ypfd_ratio.num)

C5_WithinLookback ==
    (pc = "append" /\ price.some) =>
        /\ selected_date - LookbackDays <= latest_valid_date.v
        /\ latest_valid_date.v <= selected_date

\* C6: a latest record with 'Adj Close' gives that as the price; without
\* 'Adj Close' but with 'Close' the resolver still succeeds, with the close.
C6_CloseFallback ==
    (pc = "append" /\ market[tickers[idx]].kind = "table"
        /\ market[tickers[idx]].rows # {} /\ "Volume" \in market[tickers[idx]].cols) =>
        /\ "Adj Close" \in market[tickers[idx]].cols
              => price = Some(LatestRow(tickers[idx]).adj)
        /\ ("Adj Close" \notin market[tickers[idx]].cols
              /\ "Close" \in market[tickers[idx]].cols)
              => price = Some(LatestRow(tickers[idx]).close)

\* C7: no exception leaves fetch_price_volume; a symbol whose resolution hits
\* an error ends in failed_tickers, and every symbol that has a quote is in
\* data whatever happened to the symbols before and after it.
C7_Containment ==
    /\ pc # "raised"
    /\ Returned =>
          \A i \in 1..Len(tickers) :
              /\ HasQuote(tickers[i]) =>
                    \E j \in 1..Len(data) :
                        data[j] = Rec(tickers[i], LatestRow(tickers[i]).adj,
                                      LatestRow(tickers[i]).volume)
              /\ NoQuote(tickers[i]) =>
                    /\ \E j \in 1..Len(failed_tickers) : failed_tickers[j] = tickers[i]
                    /\ \A j \in 1..Len(data) : data[j].Ticker # tickers[i]

C7_Witness ==
    /\ pc = "returned"
    /\ Len(tickers) = 3
    /\ market[tickers[1]] = Raise
    /\ market[tickers[2]].kind = "table" /\ "Adj Close" \notin market[tickers[2]].cols
    /\ HasQuote(tickers[3])
    /\ Len(data) = 1

\* C8: the basket's dollar volume is the sum of price x volume over exactly
\* the symbols that resolved, and the failed list holds the others in order.
C8_DollarVolume ==
    pc = "adrs_done" =>
        /\ adrs_value = Fin(QuoteSum(tickers), 1)
        /\ failed_tickers = SelectSeq(tickers, NoQuote)

C8_Witness ==
    /\ pc = "adrs_done"
    /\ tickers = <<"AAA", "BBB">>
    /\ market["AAA"] = Quote(today, 2, 50)
    /\ adrs_value = Fin(100, 1)
    /\ failed_tickers = <<"BBB">>

C10_WarningPerFailure ==
    /\ \A s \in FetchSymbols : Occ(failed_tickers, s) <= ResolverWarnings(s)
    /\ \A j \in 1..Len(data) : ResolverWarnings(data[j].Ticker) = 0
    /\ (pc = "append" /\ ~(price.some /\ volume.some)) =>
          ResolverWarnings(tickers[idx]) = Occ(failed_tickers, tickers[idx]) + 1
    /\ (pc = "append" /\ price.some /\ volume.some) =>
          ResolverWarnings(tickers[idx]) = 0

C10_Witness ==
    /\ pc = "append"
    /\ ~price.some
    /\ data # <<>>
    /\ Occ(failed_tickers, tickers[idx]) = 1
    /\ ResolverWarnings(tickers[idx]) = 2

====
